---- MODULE Spec2Model ----
(***************************************************************************)
(* A model of simulation.py: a McKean-Vlasov swarm of N agents in the      *)
(* plane, integrated with Euler-Maruyama steps.                            *)
(*                                                                         *)
(* numpy's float64 is modelled as a decimal floating point number with a   *)
(* mantissa of Prec digits, round-to-nearest-even, the exponent range of   *)
(* float64, and the special values +Inf, -Inf and NaN.  A finite value is  *)
(* [k |-> "fin", m |-> mantissa, e |-> exponent], standing for m * 10^e,   *)
(* with 10^(Prec-1) <= |m| < 10^Prec, or m = 0 and e = 0.                  *)
(***************************************************************************)
EXTENDS Integers, Sequences, FiniteSets, TLC

\* ------------------------------------------------------------------ float64

Prec == 4
MantLo == 1000
MantHi == 9999
\* the largest finite float64 is 1.797e308 = MaxMant * 10^MaxExp
MaxMant == 1797
MaxExp == 305
\* below 10^MinExp a float64 underflows to zero (subnormals are left out)
MinExp == -327

Zero == [k |-> "fin", m |-> 0, e |-> 0]
NaN == [k |-> "nan", m |-> 0, e |-> 0]
Inf(s) == [k |-> "inf", m |-> s, e |-> 0]

Abs(a) == IF a < 0 THEN -a ELSE a
Sgn(a) == IF a < 0 THEN -1 ELSE IF a = 0 THEN 0 ELSE 1

RECURSIVE Pow10(_)
Pow10(d) == IF d = 0 THEN 1 ELSE 10 * Pow10(d - 1)

\* number of decimal digits of a > 0
RECURSIVE Digits(_)
Digits(a) == IF a < 10 THEN 1 ELSE 1 + Digits(a \div 10)

IsFinite(x) == x.k = "fin"

\* the float nearest to s * a * 10^ex (a >= 0), overflowing to Inf
Pack(s, a, ex) ==
    IF a = 0 THEN Zero
    ELSE IF ex > MaxExp \/ (ex = MaxExp /\ a > MaxMant) THEN Inf(s)
    ELSE IF ex < MinExp THEN Zero
    ELSE [k |-> "fin", m |-> s * a, e |-> ex]

\* round the integer M * 10^E to Prec digits, ties to even
Norm(M, E) ==
    LET a == Abs(M)
        s == Sgn(M)
        n == IF a = 0 THEN 1 ELSE Digits(a)
    IN  IF a = 0 THEN Zero
        ELSE IF n <= Prec
             THEN Pack(s, a * Pow10(Prec - n), E - (Prec - n))
             ELSE LET d == n - Prec
                      p == Pow10(d)
                      q == a \div p
                      r == a % p
                      up == (2 * r > p) \/ (2 * r = p /\ q % 2 = 1)
                      q1 == IF up THEN q + 1 ELSE q
                  IN  IF q1 > MantHi
                      THEN Pack(s, MantLo, E + d + 1)
                      ELSE Pack(s, q1, E + d)

FromInt(n) == Norm(n, 0)

FNeg(x) ==
    IF x.k = "nan" THEN NaN
    ELSE IF x.k = "inf" THEN Inf(-x.m)
    ELSE [k |-> "fin", m |-> -x.m, e |-> x.e]

FAdd(x, y) ==
    IF x.k = "nan" \/ y.k = "nan" THEN NaN
    ELSE IF x.k = "inf" /\ y.k = "inf"
         THEN (IF x.m = y.m THEN x ELSE NaN)
    ELSE IF x.k = "inf" THEN x
    ELSE IF y.k = "inf" THEN y
    ELSE IF x.m = 0 THEN y
    ELSE IF y.m = 0 THEN x
    ELSE LET hi == IF x.e >= y.e THEN x ELSE y
             lo == IF x.e >= y.e THEN y ELSE x
             d == hi.e - lo.e
         IN  IF d > Prec + 1 THEN hi
             ELSE Norm(hi.m * Pow10(d) + lo.m, lo.e)

FSub(x, y) == FAdd(x, FNeg(y))

FMul(x, y) ==
    IF x.k = "nan" \/ y.k = "nan" THEN NaN
    ELSE IF x.k = "inf" \/ y.k = "inf"
         THEN (IF x.m = 0 \/ y.m = 0 THEN NaN ELSE Inf(Sgn(x.m) * Sgn(y.m)))
    ELSE IF x.e + y.e > MaxExp + 1 THEN
             (IF x.m = 0 \/ y.m = 0 THEN Zero ELSE Inf(Sgn(x.m) * Sgn(y.m)))
    ELSE Norm(x.m * y.m, x.e + y.e)

FDiv(x, y) ==
    IF x.k = "nan" \/ y.k = "nan" THEN NaN
    ELSE IF x.k = "inf"
         THEN (IF y.k = "inf" THEN NaN
               ELSE Inf(x.m * (IF y.m < 0 THEN -1 ELSE 1)))
    ELSE IF y.k = "inf" THEN Zero
    ELSE IF y.m = 0
         THEN (IF x.m = 0 THEN NaN ELSE Inf(Sgn(x.m)))
    ELSE LET q == (Abs(x.m) * Pow10(Prec + 1)) \div Abs(y.m)
         IN  Norm(Sgn(x.m) * Sgn(y.m) * q, x.e - y.e - (Prec + 1))

\* the largest r with r * r <= a, searched in lo..hi
RECURSIVE ISqrt(_, _, _)
ISqrt(a, lo, hi) ==
    IF lo >= hi THEN lo
    ELSE LET mid == (lo + hi + 1) \div 2
         IN  IF mid * mid <= a THEN ISqrt(a, mid, hi) ELSE ISqrt(a, lo, mid - 1)

FSqrt(x) ==
    IF x.k = "nan" THEN NaN
    ELSE IF x.k = "inf" THEN (IF x.m > 0 THEN x ELSE NaN)
    ELSE IF x.m < 0 THEN NaN
    ELSE IF x.m = 0 THEN Zero
    ELSE LET sh == IF x.e % 2 = 0 THEN Prec ELSE Prec + 1
             a == x.m * Pow10(sh)
         IN  Norm(ISqrt(a, 0, 40000), (x.e - sh) \div 2)

\* x < y, false when either is NaN
FLt(x, y) ==
    IF x.k = "nan" \/ y.k = "nan" THEN FALSE
    ELSE IF x.k = "inf" THEN x.m < 0 /\ ~(y.k = "inf" /\ y.m < 0)
    ELSE IF y.k = "inf" THEN y.m > 0
    ELSE IF Sgn(x.m) # Sgn(y.m) THEN Sgn(x.m) < Sgn(y.m)
    ELSE IF x.m = 0 THEN FALSE
    ELSE IF x.m > 0
         THEN x.e < y.e \/ (x.e = y.e /\ x.m < y.m)
         ELSE x.e > y.e \/ (x.e = y.e /\ x.m < y.m)

\* ---------------------------------------------------------------- 2-vectors

Zeros2 == <<Zero, Zero>>
VAdd(u, v) == <<FAdd(u[1], v[1]), FAdd(u[2], v[2])>>
VSub(u, v) == <<FSub(u[1], v[1]), FSub(u[2], v[2])>>
VNeg(u) == <<FNeg(u[1]), FNeg(u[2])>>
VScale(u, c) == <<FMul(u[1], c), FMul(u[2], c)>>
VDivS(u, c) == <<FDiv(u[1], c), FDiv(u[2], c)>>
\* np.linalg.norm of a 2-vector
VNorm(u) == FSqrt(FAdd(FMul(u[1], u[1]), FMul(u[2], u[2])))

\* ------------------------------------------------------------- the program

\* literals of simulation.py
Floor == Norm(1, -3)
GuardRange == FromInt(2)
GuardGain == FromInt(2)
MageGain == Norm(-5, -1)
WellGain == Norm(1, -1)
WellWidth == FromInt(9)
InitScale == FromInt(5)

Guard == 0
Mage == 1
Ninja == 2

\* mutant: the floor only catches coincident agents
KernelZeroOnly(xi, xj, c_type) ==
    LET r == VSub(xi, xj)
        dist == VNorm(r)
    IN  IF dist = Zero THEN Zeros2
        ELSE IF c_type = Guard
             THEN (IF FLt(dist, GuardRange)
                   THEN VDivS(VScale(r, GuardGain), FMul(FMul(dist, dist), dist))
                   ELSE Zeros2)
        ELSE IF c_type = Mage
             THEN VDivS(VScale(r, MageGain), dist)
        ELSE Zeros2

\* mutant: no floor at all
KernelNoFloor(xi, xj, c_type) ==
    LET r == VSub(xi, xj)
        dist == VNorm(r)
    IN  IF c_type = Guard
        THEN (IF FLt(dist, GuardRange)
              THEN VDivS(VScale(r, GuardGain), FMul(FMul(dist, dist), dist))
              ELSE Zeros2)
        ELSE IF c_type = Mage
             THEN VDivS(VScale(r, MageGain), dist)
        ELSE Zeros2

\* mutant: the Guard's repulsion has no range
KernelGuardUnbounded(xi, xj, c_type) ==
    LET r == VSub(xi, xj)
        dist == VNorm(r)
    IN  IF FLt(dist, Floor) THEN Zeros2
        ELSE IF c_type = Guard
             THEN VDivS(VScale(r, GuardGain), FMul(FMul(dist, dist), dist))
        ELSE IF c_type = Mage
             THEN VDivS(VScale(r, MageGain), dist)
        ELSE Zeros2

\* mutant: every class but the Guard attracts
KernelNinjaAttracts(xi, xj, c_type) ==
    LET r == VSub(xi, xj)
        dist == VNorm(r)
    IN  IF FLt(dist, Floor) THEN Zeros2
        ELSE IF c_type = Guard
             THEN (IF FLt(dist, GuardRange)
                   THEN VDivS(VScale(r, GuardGain), FMul(FMul(dist, dist), dist))
                   ELSE Zeros2)
        ELSE VDivS(VScale(r, MageGain), dist)

interaction_kernel(xi, xj, c_type) ==
    LET r == VSub(xi, xj)
        dist == VNorm(r)
    IN  IF FLt(dist, Floor) THEN Zeros2
        ELSE IF c_type = Guard
             THEN (IF FLt(dist, GuardRange)
                   THEN VDivS(VScale(r, GuardGain), FMul(FMul(dist, dist), dist))
                   ELSE Zeros2)
        ELSE IF c_type = Mage
             THEN VDivS(VScale(r, MageGain), dist)
        ELSE Zeros2

\* one coordinate of potential_gradient
Gradient1(x) ==
    FMul(WellGain, FSub(FMul(FMul(x, x), x), FMul(WellWidth, x)))

potential_gradient(x) == <<Gradient1(x[1]), Gradient1(x[2])>>

\* the indices j for which the inner loop calls the kernel, in order, from j on
RECURSIVE KernelCalls(_, _, _)
KernelCalls(i, j, n) ==
    IF j >= n THEN <<>>
    ELSE IF i = j THEN KernelCalls(i, j + 1, n)
    ELSE <<j>> \o KernelCalls(i, j + 1, n)

\* interaction += interaction_kernel(X[i], X[j], classes[i]) over the calls
RECURSIVE Accumulate(_, _, _, _, _)
Accumulate(Xp, cls, i, calls, acc) ==
    IF calls = <<>> THEN acc
    ELSE Accumulate(Xp, cls, i, Tail(calls),
                    VAdd(acc, interaction_kernel(Xp[i], Xp[Head(calls)], cls[i])))

\* mutant: the sum is averaged over the n - 1 other agents
InteractionPairAverage(Xp, cls, i, n) ==
    VDivS(Accumulate(Xp, cls, i, KernelCalls(i, 0, n), Zeros2), FromInt(n - 1))

\* the interaction term of agent i: the accumulated sum, then /= N
Interaction(Xp, cls, i, n) ==
    VDivS(Accumulate(Xp, cls, i, KernelCalls(i, 0, n), Zeros2), FromInt(n))

\* noise = np.random.randn(2) * np.sqrt(dt) * sigma, z the two normal draws
ScaleNoise(z, dtv, sg) == VScale(VScale(z, FSqrt(dtv)), sg)

\* the McKean-Vlasov update of agent i, read from the snapshot Xp
AgentUpdate(Xp, cls, i, nz, n, dtv) ==
    LET drift == VNeg(potential_gradient(Xp[i]))
        interaction == Interaction(Xp, cls, i, n)
    IN  VAdd(VAdd(Xp[i], VScale(VAdd(drift, interaction), dtv)), nz)

\* mutant: the update in place, agents before i read at their new positions
LoopBodyInPlace(Xp, Xn, cls, i, nz, n, dtv) ==
    [Xn EXCEPT ![i] =
        AgentUpdate([k \in DOMAIN Xp |-> IF k < i THEN Xn[k] ELSE Xp[k]],
                    cls, i, nz, n, dtv)]

\* the body of the loop over i: reads X, writes X_new[i]
LoopBody(Xp, Xn, cls, i, nz, n, dtv) ==
    [Xn EXCEPT ![i] = AgentUpdate(Xp, cls, i, nz, n, dtv)]

ZerosLike(n) == [k \in 0 .. n - 1 |-> Zeros2]

\* ------------------------------------------------------- the random source

\* np.random's generator, as a linear congruential generator over 0..RngMod-1
RngMod == 251
RngMul == 33
RngInc == 7
Advance(s) == (s * RngMul + RngInc) % RngMod

RECURSIVE AdvanceBy(_, _)
AdvanceBy(s, n) == IF n <= 0 THEN s ELSE AdvanceBy(Advance(s), n - 1)

\* standard normal samples, in tenths
NormalTable == <<1, -4, 7, -11, 16, -20, 3, 30>>
Randn(s) == Norm(NormalTable[(s % Len(NormalTable)) + 1], -1)
\* np.random.randint(0, 3)
Randint(s) == (s \div Len(NormalTable)) % 3

\* X = np.random.randn(N, 2) * 5, drawn row by row from state s
InitX(s, n) ==
    [k \in 0 .. n - 1 |->
        <<FMul(Randn(AdvanceBy(s, 2 * k)), InitScale),
          FMul(Randn(AdvanceBy(s, 2 * k + 1)), InitScale)>>]

\* classes = np.random.randint(0, 3, N), drawn from state s
InitClasses(s, n) == [k \in 0 .. n - 1 |-> Randint(AdvanceBy(s, k))]

\* ---------------------------------------------------------------- the state

VARIABLES
    N, T, dt, sigma,    \* the configuration
    rng,                \* the state of np.random's generator
    seed,               \* the state the generator started from
    X, classes,         \* positions and classes of the agents 0..N-1
    X0,                 \* the positions as initialised
    X_new, noise,       \* the step under way: new positions, noise drawn
    i, t,               \* the loop counters
    history,
    pc                  \* "init", "error", "loop", "agents" or "done"

vars == <<N, T, dt, sigma, rng, seed, X, classes, X0, X_new, noise, i, t,
          history, pc>>

\* bounds of the configurations explored
MaxN == 3
MaxT == 2
MaxSeed == 3
LongN == 2
LongT == 9

Tenth == Norm(1, -1)
Half == Norm(5, -1)
One == FromInt(1)

\* the script from its first line, under any configuration, valid or not
Init ==
    /\ N \in -1 .. MaxN
    /\ T \in -1 .. MaxT
    /\ dt \in {FNeg(Tenth), Zero, Tenth}
    /\ sigma \in {FNeg(Half), Zero, Half}
    /\ rng \in 0 .. MaxSeed
    /\ seed = rng
    /\ X = << >>
    /\ classes = << >>
    /\ X0 = << >>
    /\ X_new = << >>
    /\ noise = << >>
    /\ i = 0
    /\ t = 0
    /\ history = << >>
    /\ pc = "init"

\* positions the generator can draw: agent k at base + k * gap
NearBases == {<<Zero, Zero>>, <<FromInt(-3), FromInt(3)>>}
FarBases == {<<FromInt(15), FromInt(-1)>>}
Gaps == {<<Zero, Zero>>, <<Norm(3, -4), Zero>>, <<Norm(5, -4), Zero>>,
         <<Norm(3, -1), Norm(4, -1)>>, <<Norm(12, -1), Norm(16, -1)>>,
         <<FromInt(3), FromInt(4)>>}
Layout(base, gap, n) ==
    [k \in 0 .. n - 1 |-> VAdd(base, VScale(gap, FromInt(k)))]

\* the state when the simulation loop is entered, for a valid configuration
LoopEntry(ns, ts, bases) ==
    /\ N \in ns
    /\ T \in ts
    /\ dt = Tenth
    /\ sigma \in {Zero, Half}
    /\ seed = 0
    /\ rng = AdvanceBy(seed, 3 * N)
    /\ \E base \in bases, gap \in Gaps : X = Layout(base, gap, N)
    /\ classes \in [0 .. N - 1 -> {Guard, Mage, Ninja}]
    /\ X0 = X
    /\ X_new = << >>
    /\ noise = << >>
    /\ i = 0
    /\ t = 0
    /\ history = << >>
    /\ pc = "loop"

InitAny == LoopEntry(1 .. MaxN, {MaxT}, NearBases)

InitLong == LoopEntry(1 .. LongN, {LongT}, NearBases \cup FarBases)

\* lines 11 and 14: draw the positions and the classes
InitPopulation ==
    /\ pc = "init"
    /\ N >= 0
    /\ X' = InitX(rng, N)
    /\ X0' = X'
    /\ classes' = InitClasses(AdvanceBy(rng, 2 * N), N)
    /\ rng' = AdvanceBy(rng, 3 * N)
    /\ pc' = "loop"
    /\ UNCHANGED <<N, T, dt, sigma, seed, X_new, noise, i, t, history>>

\* line 11 with N < 0: randn raises ValueError (negative dimensions)
InitFails ==
    /\ pc = "init"
    /\ N < 0
    /\ pc' = "error"
    /\ UNCHANGED <<N, T, dt, sigma, rng, seed, X, classes, X0, X_new, noise,
                   i, t, history>>

\* mutant: one step too many
BeginStepOffByOne ==
    /\ pc = "loop"
    /\ t <= T
    /\ X_new' = ZerosLike(N)
    /\ noise' = ZerosLike(N)
    /\ i' = 0
    /\ pc' = "agents"
    /\ UNCHANGED <<N, T, dt, sigma, rng, seed, X, classes, X0, t, history>>

\* lines 37-38: enter step t, X_new = np.zeros_like(X)
BeginStep ==
    /\ pc = "loop"
    /\ t < T
    /\ X_new' = ZerosLike(N)
    /\ noise' = ZerosLike(N)
    /\ i' = 0
    /\ pc' = "agents"
    /\ UNCHANGED <<N, T, dt, sigma, rng, seed, X, classes, X0, t, history>>

\* mutant: the noise comes from a generator seeded afresh at every draw
UpdateAgentUnseeded ==
    /\ pc = "agents"
    /\ i < N
    /\ \E fresh \in 0 .. MaxSeed :
           LET z == <<Randn(fresh), Randn(Advance(fresh))>>
               nz == ScaleNoise(z, dt, sigma)
           IN  /\ noise' = [noise EXCEPT ![i] = nz]
               /\ X_new' = LoopBody(X, X_new, classes, i, nz, N, dt)
    /\ rng' = Advance(Advance(rng))
    /\ i' = i + 1
    /\ UNCHANGED <<N, T, dt, sigma, seed, X, classes, X0, t, history, pc>>

\* lines 39-51: one pass of the loop over i
UpdateAgent ==
    /\ pc = "agents"
    /\ i < N
    /\ LET z == <<Randn(rng), Randn(Advance(rng))>>
           nz == ScaleNoise(z, dt, sigma)
       IN  /\ noise' = [noise EXCEPT ![i] = nz]
           /\ X_new' = LoopBody(X, X_new, classes, i, nz, N, dt)
    /\ rng' = Advance(Advance(rng))
    /\ i' = i + 1
    /\ UNCHANGED <<N, T, dt, sigma, seed, X, classes, X0, t, history, pc>>

\* mutant: the snapshot is recorded before X is rebound
EndStepStale ==
    /\ pc = "agents"
    /\ i >= N
    /\ X' = X_new
    /\ history' = Append(history, X)
    /\ t' = t + 1
    /\ pc' = "loop"
    /\ UNCHANGED <<N, T, dt, sigma, rng, seed, classes, X0, X_new, noise, i>>

\* lines 53-54: X = X_new; history.append(X.copy())
EndStep ==
    /\ pc = "agents"
    /\ i >= N
    /\ X' = X_new
    /\ history' = Append(history, X')
    /\ t' = t + 1
    /\ pc' = "loop"
    /\ UNCHANGED <<N, T, dt, sigma, rng, seed, classes, X0, X_new, noise, i>>

\* line 56: the loop is over
Finish ==
    /\ pc = "loop"
    /\ t >= T
    /\ pc' = "done"
    /\ UNCHANGED <<N, T, dt, sigma, rng, seed, X, classes, X0, X_new, noise,
                   i, t, history>>

Loop == BeginStep \/ UpdateAgent \/ EndStep \/ Finish

Next == InitPopulation \/ InitFails \/ BeginStep \/ UpdateAgent \/ EndStep \/ Finish

Spec == Init /\ [][Next]_vars

SpecAny == InitAny /\ [][Loop]_vars

SpecLong == InitLong /\ [][Loop]_vars

\* --------------------------------------------------------------- the claims

InLoop == pc \in {"loop", "agents", "done"}
Agents == 0 .. N - 1
ValidConfig == N > 0 /\ T >= 0 /\ FLt(Zero, dt) /\ ~FLt(sigma, Zero)
FiniteVec(u) == IsFinite(u[1]) /\ IsFinite(u[2])
Dist(a, b) == VNorm(VSub(a, b))

\* the orders in which n agents can be processed
Perms(n) ==
    {p \in [1 .. n -> 0 .. n - 1] : \A a, b \in 1 .. n : a # b => p[a] # p[b]}

\* the loop body applied to the agents in the given order
RECURSIVE ProcessInOrder(_, _, _, _, _, _, _)
ProcessInOrder(order, Xp, Xn, cls, nzs, n, dtv) ==
    IF Len(order) = 0 THEN Xn
    ELSE ProcessInOrder(Tail(order), Xp,
                        LoopBody(Xp, Xn, cls, Head(order), nzs[Head(order)], n, dtv),
                        cls, nzs, n, dtv)

\* C1: within a step every new position written so far is the update of the
\* prior snapshot X and the agent's own noise alone, and once all N are
\* written, processing the agents in any order gives the same X_new.
C1_SynchronousUpdate ==
    pc = "agents" =>
        /\ \A k \in 0 .. i - 1 :
               X_new[k] = AgentUpdate(X, classes, k, noise[k], N, dt)
        /\ i = N =>
               \A order \in Perms(N) :
                   ProcessInOrder(order, X, ZerosLike(N), classes, noise, N, dt) = X_new

C1_Witness ==
    /\ pc = "agents"
    /\ i = N
    /\ N >= 3
    /\ ValidConfig
    /\ sigma = Half
    /\ Len(history) >= 1
    /\ \E k \in 1 .. N - 1 :
           /\ Interaction(X, classes, k, N) # Zeros2
           /\ FiniteVec(X_new[k])
           /\ X_new[k] # X[k]

\* for N > 0 and T >= 0: one entry per completed step, never more than T,
\* exactly T once the run is over, each entry N positions of 2 coordinates
C2_Shape ==
    (N > 0 /\ T >= 0) =>
        /\ Len(history) = t
        /\ t <= T
        /\ pc = "done" => Len(history) = T
        /\ \A h \in 1 .. Len(history) :
               /\ DOMAIN history[h] = Agents
               /\ \A k \in Agents : Len(history[h][k]) = 2

\* the number of actions left before the run is over
Remaining ==
    IF pc = "init" THEN T * (N + 2) + 2
    ELSE IF pc = "loop" THEN (T - t) * (N + 2) + 1
    ELSE IF pc = "agents" THEN (T - t) * (N + 2) - i
    ELSE 0

\* C2: for N > 0 and T >= 0 the history has one entry per completed step, never
\* more than T, exactly T once the run is over, every entry holds N positions
\* of 2 coordinates, and the run ends: until it is over the program is at a
\* line that has a next step, and each action leaves one action less to take.
C2_RunLength ==
    /\ []C2_Shape
    /\ []((N > 0 /\ T >= 0 /\ pc # "done") => (Remaining > 0 /\ pc \in {"init", "loop", "agents"}))
    /\ [][(N > 0 /\ T >= 0) => Remaining' = Remaining - 1]_vars

C2_Witness ==
    /\ pc = "done"
    /\ N >= 2
    /\ T >= 2
    /\ Len(history) = T

\* the snapshot one integrator step after Xp, under the noise nzs
SyncStep(Xp, cls, nzs, n, dtv) ==
    [k \in 0 .. n - 1 |-> AgentUpdate(Xp, cls, k, nzs[k], n, dtv)]

HistoryGrows ==
    /\ Len(history') = Len(history) + 1
    /\ SubSeq(history', 1, Len(history)) = history
    /\ pc = "agents"
    /\ i = N
    /\ history'[Len(history')] = SyncStep(X, classes, noise, N, dt)
    /\ Len(history) > 0 => X = history[Len(history)]
    /\ X' = history'[Len(history')]

\* C3: the history changes only by appending, after all N new positions of the
\* step are computed, the one complete snapshot that is an integrator step of
\* the previous entry and is the prior of the next step; earlier entries stay.
C3_AppendOnly == [][history' # history => HistoryGrows]_vars

C3_Witness ==
    /\ Len(history) >= 2
    /\ N >= 2
    /\ history[1] # history[2]

InvalidConfig == N <= 0 \/ T < 0 \/ ~FLt(Zero, dt) \/ FLt(sigma, Zero)

\* C4: with N <= 0, T < 0, dt <= 0 or sigma < 0 the program stops with a
\* configuration error before the simulation loop: no step, no snapshot.
C4_ConfigRejected ==
    InvalidConfig => (pc \in {"init", "error"} /\ t = 0 /\ history = << >>)

\* the noise the generator started from s gives agent k in step h (from 1)
RefNoise(s, n, dtv, sg, h, k) ==
    LET at == AdvanceBy(s, 3 * n + 2 * (n * (h - 1) + k))
    IN  ScaleNoise(<<Randn(at), Randn(Advance(at))>>, dtv, sg)

RefClasses(s, n) == InitClasses(AdvanceBy(s, 2 * n), n)

\* the snapshot after h steps as a function of the configuration and the seed
RECURSIVE RefSnapshot(_, _, _, _, _)
RefSnapshot(s, n, dtv, sg, h) ==
    IF h = 0 THEN InitX(s, n)
    ELSE SyncStep(RefSnapshot(s, n, dtv, sg, h - 1), RefClasses(s, n),
                  [k \in 0 .. n - 1 |-> RefNoise(s, n, dtv, sg, h, k)], n, dtv)

\* C5: the initial positions, the classes and every recorded snapshot are a
\* function of the configuration and the seed, so two runs that share them
\* produce the same trajectory.
C5_Determinism ==
    InLoop =>
        /\ X0 = RefSnapshot(seed, N, dt, sigma, 0)
        /\ classes = RefClasses(seed, N)
        /\ \A h \in 1 .. Len(history) :
               history[h] = RefSnapshot(seed, N, dt, sigma, h)

C5_Witness ==
    /\ pc = "done"
    /\ N >= 2
    /\ Len(history) >= 2
    /\ sigma = Half
    /\ dt = Tenth
    /\ history[1] # history[2]

\* the sum of the kernel over the agents 0..j other than a, for the class c
RECURSIVE SumOthers(_, _, _, _)
SumOthers(Xp, c, a, j) ==
    IF j < 0 THEN Zeros2
    ELSE IF j = a THEN SumOthers(Xp, c, a, j - 1)
    ELSE VAdd(SumOthers(Xp, c, a, j - 1), interaction_kernel(Xp[a], Xp[j], c))

Occurrences(seq, v) == Cardinality({a \in 1 .. Len(seq) : seq[a] = v})

\* C6: the interaction term of agent i is the sum of the kernel, with i's own
\* class, over every other agent once and never over i itself, divided by N;
\* for N = 1 it is the zero vector.
C6_MeanField ==
    pc = "loop" =>
        \A a \in Agents :
            /\ Occurrences(KernelCalls(a, 0, N), a) = 0
            /\ \A b \in Agents \ {a} : Occurrences(KernelCalls(a, 0, N), b) = 1
            /\ Len(KernelCalls(a, 0, N)) = N - 1
            /\ Interaction(X, classes, a, N) =
                   VDivS(SumOthers(X, classes[a], a, N - 1), FromInt(N))
            /\ N = 1 => Interaction(X, classes, a, N) = Zeros2

C6_Witness ==
    /\ pc = "loop"
    /\ N = 3
    /\ sigma = Zero
    /\ Len(history) >= 1
    /\ \E a \in Agents :
           /\ \A b \in Agents \ {a} :
                  interaction_kernel(X0[a], X0[b], classes[a]) # Zeros2
           /\ Interaction(X0, classes, a, N) # Zeros2
           /\ \E b \in Agents : classes[b] # classes[a]
           /\ history[1][a] # VAdd(X0[a], VScale(VNeg(potential_gradient(X0[a])), dt))

Near(a, b) == FLt(Dist(a, b), Floor)

\* C7: whatever the class of the acting agent, the kernel of two positions
\* closer than 1e-3, the same position included, is the zero vector, so when
\* all agents are pairwise closer than 1e-3 every interaction term is the zero
\* vector.
C7_KernelFloor ==
    pc = "loop" =>
        /\ \A a, b \in Agents :
               Near(X[a], X[b]) =>
                   interaction_kernel(X[a], X[b], classes[a]) = Zeros2
        /\ (\A a, b \in Agents : Near(X[a], X[b])) =>
               \A a \in Agents : Interaction(X, classes, a, N) = Zeros2

C7_Witness ==
    /\ pc = "loop"
    /\ N = 3
    /\ sigma = Zero
    /\ Len(history) >= 1
    /\ \A a \in Agents : classes[a] = Guard
    /\ \A a, b \in Agents : Near(X0[a], X0[b]) /\ (a # b => X0[a] # X0[b])
    /\ \A a \in Agents :
           history[1][a] = VAdd(X0[a], VScale(VNeg(potential_gradient(X0[a])), dt))

Dot(u, v) == FAdd(FMul(u[1], v[1]), FMul(u[2], v[2]))

\* what the kernel is to return for r = xi - xj of length dist >= 1e-3
ExpectedKernel(r, dist, c) ==
    IF c = Guard
    THEN (IF FLt(dist, FromInt(2))
          THEN VDivS(VScale(r, FromInt(2)), FMul(FMul(dist, dist), dist))
          ELSE Zeros2)
    ELSE IF c = Mage THEN VDivS(VScale(r, Norm(-5, -1)), dist)
    ELSE Zeros2

\* C8: at distance >= 1e-3 the kernel is a function of r = xi - xj and the
\* acting class: Guard 2r/dist^3 below distance 2 and zero from 2 on, Mage
\* -0.5 r/dist, of length 0.5 (to the precision of the arithmetic) and
\* pointing at the other agent, Ninja zero.
C8_ClassDispatch ==
    pc = "loop" =>
        \A a, b \in Agents :
            LET c == classes[a]
                r == VSub(X[a], X[b])
                dist == VNorm(r)
                f == interaction_kernel(X[a], X[b], c)
            IN  (IsFinite(dist) /\ ~FLt(dist, Floor)) =>
                    /\ f = ExpectedKernel(r, dist, c)
                    /\ c = Mage =>
                           /\ FLt(Norm(499, -3), VNorm(f))
                           /\ FLt(VNorm(f), Norm(501, -3))
                           /\ FLt(Zero, Dot(f, VSub(X[b], X[a])))
                    /\ (c = Guard /\ ~FLt(dist, FromInt(2))) => f = Zeros2
                    /\ c = Ninja => f = Zeros2

C8_Witness ==
    /\ pc = "loop"
    /\ \E a, b \in Agents :
           /\ classes[a] = Guard
           /\ ~Near(X[a], X[b])
           /\ FLt(Dist(X[a], X[b]), GuardRange)
           /\ interaction_kernel(X[a], X[b], classes[a]) # Zeros2
    /\ \E a, b \in Agents :
           /\ classes[a] = Guard
           /\ ~FLt(Dist(X[a], X[b]), GuardRange)
    /\ \E a, b \in Agents : classes[a] = Mage /\ ~Near(X[a], X[b])

\* x - 0.1 * (x^3 - 9x) * dt
SingleStep(x, dtv) ==
    FSub(x, FMul(FMul(Norm(1, -1), FSub(FMul(FMul(x, x), x), FMul(FromInt(9), x))), dtv))

RECURSIVE Iterate(_, _, _)
Iterate(x, dtv, h) == IF h = 0 THEN x ELSE SingleStep(Iterate(x, dtv, h - 1), dtv)

\* C9: with every agent a Ninja and sigma = 0, the position of each agent after
\* h steps is h single-agent updates of its own initial position, whatever the
\* other agents are.
C9_Decoupled ==
    (pc = "loop" /\ sigma = Zero /\ \A a \in Agents : classes[a] = Ninja) =>
        \A h \in 1 .. Len(history) : \A a \in Agents :
            history[h][a] = <<Iterate(X0[a][1], dt, h), Iterate(X0[a][2], dt, h)>>

C9_Witness ==
    /\ pc = "loop"
    /\ sigma = Zero
    /\ N >= 2
    /\ \A a \in Agents : classes[a] = Ninja
    /\ Len(history) = 2
    /\ history[1] # history[2]
    /\ \A a, b \in Agents : a # b => ~Near(X0[a], X0[b])

\* |x| <= 1e100
Bounded(x) == IsFinite(x) /\ ~FLt(Norm(1, 100), x) /\ ~FLt(x, Norm(-1, 100))
PriorOf(h) == IF h = 1 THEN X0 ELSE history[h - 1]

\* C10 as claimed: every recorded coordinate is finite.
C10_AlwaysFinite ==
    (ValidConfig /\ \A a \in DOMAIN X0 : FiniteVec(X0[a])) =>
        \A h \in 1 .. Len(history) : \A a \in Agents :
            Len(history[h][a]) = 2 /\ FiniteVec(history[h][a])

\* C10: every recorded position has 2 coordinates, finite whenever dt <= 1,
\* sigma <= 1 and no coordinate of the snapshot before it exceeds 1e100 in
\* magnitude.
C10_FiniteWhileBounded ==
    (ValidConfig /\ ~FLt(One, dt) /\ ~FLt(One, sigma)) =>
        \A h \in 1 .. Len(history) : \A a \in Agents :
            /\ Len(history[h][a]) = 2
            /\ (\A b \in Agents : Bounded(PriorOf(h)[b][1]) /\ Bounded(PriorOf(h)[b][2])) =>
                   FiniteVec(history[h][a])

C10_Witness ==
    \E h \in 1 .. Len(history) : \E a \in Agents :
        /\ \A b \in Agents : Bounded(PriorOf(h)[b][1]) /\ Bounded(PriorOf(h)[b][2])
        /\ FLt(Norm(1, 30), PriorOf(h)[a][1])
        /\ FiniteVec(history[h][a])
        /\ h < Len(history)
        /\ ~FiniteVec(history[Len(history)][a])

====
